---- MODULE Spec2Model ----
(***************************************************************************)
(* A model of the go-infosight client: construction of the Client by       *)
(* functional options (NewClient, NewClientFromEnvironment), the           *)
(* BearerAuthTransport shim, Client.do and Wellness.GetObjectSet.          *)
(*                                                                         *)
(* Go strings that the code inspects character by character (URLs, the     *)
(* Authorization header) are sequences of one-character strings.  A Go     *)
(* pointer or error that may be nil is a sequence of length 0 (nil) or 1.  *)
(***************************************************************************)
EXTENDS Integers, Sequences, FiniteSets, TLC

VARIABLES
    env,      \* the process environment read by NewClientFromEnvironment
    client,   \* <<>> while no client is constructed, else <<the *Client>>
    pc,       \* the caller's position: "start", "idle", "returned"
    call,     \* the inputs of the call that returned last
    ret       \* what that call returned and handed to its collaborators

vars == <<env, client, pc, call, ret>>

(***************************************************************************)
(* Bounds of the model.                                                    *)
(***************************************************************************)
MaxSlashes == 2   \* trailing slashes put after a base URL stem
MaxOpts == 2      \* options handed to one constructor call
MaxCred == 1      \* characters of the credential after the scheme
MaxData == 1      \* elements of a response body's data array

(***************************************************************************)
(* Strings as sequences of characters.                                     *)
(***************************************************************************)
Slash == "/"
Ctl == "\n"       \* an ASCII control character

HasPrefix(s, p) == Len(s) >= Len(p) /\ SubSeq(s, 1, Len(p)) = p

HasSuffix(s, p) ==
    Len(s) >= Len(p) /\ SubSeq(s, Len(s) - Len(p) + 1, Len(s)) = p

\* strings.TrimRight(s, "/")
RECURSIVE TrimRight(_)
TrimRight(s) ==
    IF s # <<>> /\ s[Len(s)] = Slash THEN TrimRight(SubSeq(s, 1, Len(s) - 1))
    ELSE s

RECURSIVE Slashes(_)
Slashes(n) == IF n = 0 THEN <<>> ELSE <<Slash>> \o Slashes(n - 1)

defaultServer ==
    <<"h", "t", "t", "p", "s", ":", "/", "/", "i", "n", "f", "o", "s", "i",
      "g", "h", "t", ".", "h", "p", "e", ".", "c", "o", "m", "/", "a", "p",
      "i", "s", "/">>

defaultVersion == <<"v", "1">>

(***************************************************************************)
(* net/url as WithBaseURL uses it: url.Parse followed by URL.String, on    *)
(* strings of ordinary path characters, slashes and control characters.    *)
(***************************************************************************)
URLParseFails(s) == \E i \in 1..Len(s) : s[i] = Ctl

\* The index of the first slash of s at or after position i, or Len(s) + 1.
RECURSIVE NextSlash(_, _)
NextSlash(s, i) ==
    IF i > Len(s) \/ s[i] = Slash THEN i ELSE NextSlash(s, i + 1)

\* A reference that starts with exactly two slashes carries an authority.
URLParse(s) ==
    IF HasPrefix(s, <<Slash, Slash>>) /\ ~HasPrefix(s, <<Slash, Slash, Slash>>)
    THEN LET e == NextSlash(s, 3)
         IN  [Host |-> SubSeq(s, 3, e - 1), Path |-> SubSeq(s, e, Len(s))]
    ELSE [Host |-> <<>>, Path |-> s]

URLString(u) ==
    (IF u.Host # <<>> THEN <<Slash, Slash>> \o u.Host ELSE <<>>) \o u.Path

(***************************************************************************)
(* Contexts: a chain of layers, the root first; <<>> is the nil context.   *)
(***************************************************************************)
Background == <<"Background">>
WithValue(ctx, key) == Append(ctx, key)
Root(ctx) == ctx[1]

(***************************************************************************)
(* Errors: <<>> is nil.                                                    *)
(***************************************************************************)
NoError == <<>>
ParseError(s) == <<[kind |-> "url.Error", url |-> s]>>

(***************************************************************************)
(* The functional options.  An option is the closure's captured arguments; *)
(* ApplyOption is its body acting on the client under construction.        *)
(***************************************************************************)
WithTrace(trace) == [op |-> "WithTrace", trace |-> trace]
WithUserAgent(userAgent) == [op |-> "WithUserAgent", userAgent |-> userAgent]
WithContext(ctx) == [op |-> "WithContext", ctx |-> ctx]
WithLogin(user, password) ==
    [op |-> "WithLogin", user |-> user, password |-> password]
WithBaseURL(baseURL) == [op |-> "WithBaseURL", baseURL |-> baseURL]

ApplyOption(o, c) ==
    CASE o.op = "WithTrace" ->
            [c |-> [c EXCEPT !.trace = o.trace], err |-> NoError]
      [] o.op = "WithUserAgent" ->
            [c |-> [c EXCEPT !.userAgent = o.userAgent], err |-> NoError]
      [] o.op = "WithContext" ->
            [c |-> [c EXCEPT !.ctx = o.ctx], err |-> NoError]
      [] o.op = "WithLogin" ->
            [c |-> [c EXCEPT !.user = o.user, !.password = o.password],
             err |-> NoError]
      [] o.op = "WithBaseURL" ->
            IF URLParseFails(o.baseURL)
            THEN [c |-> c, err |-> ParseError(o.baseURL)]
            ELSE [c |-> [c EXCEPT !.Server = URLString(URLParse(o.baseURL))],
                  err |-> NoError]

\* A loop body that goes on after an option has failed.
ApplyOptsStepNoAbort(r, o) ==
    LET a == ApplyOption(o, r.c)
    IN  [c |-> a.c, err |-> IF r.err # NoError THEN r.err ELSE a.err,
         applied |-> Append(r.applied, o)]

\* One turn of the loop over opts: nothing runs once an option has failed.
ApplyOptsStep(r, o) ==
    IF r.err # NoError THEN r
    ELSE LET a == ApplyOption(o, r.c)
         IN  [c |-> a.c, err |-> a.err, applied |-> Append(r.applied, o)]

RECURSIVE ApplyOpts(_, _, _)
ApplyOpts(r, opts, i) ==
    IF i > Len(opts) THEN r
    ELSE ApplyOpts(ApplyOptsStep(r, opts[i]), opts, i + 1)

NewWellness(c) == [Version |-> defaultVersion]

\* A constructor that leaves an empty server empty.
DefaultedServerSkipped(server) == server

\* if c.Server == "" { c.Server = defaultServer }
DefaultedServer(server) == IF server = <<>> THEN defaultServer ELSE server

\* The part of NewClient after the options: context, server, OAuth, Wellness.
BuildClient(c) ==
    LET ctx0 == IF c.ctx = <<>> THEN Background ELSE c.ctx
        ctx1 == WithValue(ctx0, "oauth2.HTTPClient")
        srv0 == DefaultedServer(c.Server)
        srv1 == IF ~HasSuffix(srv0, <<Slash>>) THEN srv0 \o <<Slash>> ELSE srv0
        cfg  == [ClientID |-> c.user, ClientSecret |-> c.password,
                 TokenURL |-> srv1 \o <<"o", "a", "u", "t", "h", "/",
                                        "t", "o", "k", "e", "n">>]
    IN  [Server |-> srv1, userAgent |-> c.userAgent, ctx |-> ctx1,
         user |-> c.user, password |-> c.password, trace |-> c.trace,
         oauthConfig |-> cfg, innerClient |-> [config |-> cfg, ctx |-> ctx1],
         Wellness |-> NewWellness(c)]

NewClient(baseURL, opts) ==
    LET c0 == [Server |-> TrimRight(baseURL), userAgent |-> "go-infosight",
               ctx |-> <<>>, user |-> "", password |-> "", trace |-> FALSE]
        r  == ApplyOpts([c |-> c0, err |-> NoError, applied |-> <<>>], opts, 1)
    IN  IF r.err # NoError
        THEN [client |-> <<>>, err |-> r.err, applied |-> r.applied,
              built |-> FALSE]
        ELSE [client |-> <<BuildClient(r.c)>>, err |-> NoError,
              applied |-> r.applied, built |-> TRUE]

\* A constructor that puts the environment's credentials first.
NewClientFromEnvironmentPrepend(e, opts) ==
    NewClient(e.INFOSIGHT_URL,
              <<WithLogin(e.INFOSIGHT_CLIENT_KEY,
                          e.INFOSIGHT_CLIENT_SECRET)>> \o opts)

NewClientFromEnvironment(e, opts) ==
    NewClient(e.INFOSIGHT_URL,
              Append(opts, WithLogin(e.INFOSIGHT_CLIENT_KEY,
                                     e.INFOSIGHT_CLIENT_SECRET)))

(***************************************************************************)
(* HTTP requests and headers.  A header map takes each key present to the  *)
(* sequence of its values; a value is a sequence of characters or tokens.  *)
(***************************************************************************)
HeaderGet(h, k) == IF k \in DOMAIN h /\ h[k] # <<>> THEN h[k][1] ELSE <<>>

HeaderSet(h, k, v) ==
    [x \in DOMAIN h \cup {k} |-> IF x = k THEN <<v>> ELSE h[x]]

BearerTokenSp ==
    <<"B", "e", "a", "r", "e", "r", "T", "o", "k", "e", "n", " ">>
BearerSp == <<"B", "e", "a", "r", "e", "r", " ">>

\* A copy of the struct with a copy of the Header map.
cloneRequest(r) ==
    [Method |-> r.Method, URL |-> r.URL, ctx |-> r.ctx,
     Header |-> [k \in DOMAIN r.Header |-> r.Header[k]]]

\* A shim that cuts the scheme one character short.
RoundTripOffByOne(req) ==
    LET auth  == HeaderGet(req.Header, "Authorization")
        auth2 == IF HasPrefix(auth, BearerTokenSp)
                 THEN BearerSp \o SubSeq(auth, 12, Len(auth))
                 ELSE auth
        req2  == cloneRequest(req)
    IN  [req2 EXCEPT !.Header = HeaderSet(req2.Header, "Authorization", auth2)]

\* BearerAuthTransport.RoundTrip: the request handed to t.rt.
RoundTrip(req) ==
    LET auth  == HeaderGet(req.Header, "Authorization")
        auth2 == IF HasPrefix(auth, BearerTokenSp)
                 THEN BearerSp \o SubSeq(auth, 12 + 1, Len(auth))
                 ELSE auth
        req2  == cloneRequest(req)
    IN  [req2 EXCEPT !.Header = HeaderSet(req2.Header, "Authorization", auth2)]

(***************************************************************************)
(* JSON documents: a tagged value; an object is the sequence of its        *)
(* members as written.  Go values decoded into interface{} are tagged by   *)
(* their dynamic type.                                                     *)
(***************************************************************************)
JInvalid == [t |-> "invalid"]
JNull == [t |-> "null"]
JNum(n) == [t |-> "num", n |-> n]
JStr(s) == [t |-> "str", s |-> s]
JArr(elems) == [t |-> "arr", elems |-> elems]
JObj(members) == [t |-> "obj", members |-> members]
Member(k, v) == [k |-> k, v |-> v]

\* encoding/json matches an object key to a struct field ignoring case.
FoldKey(k) ==
    CASE k = "Data" -> "data"
      [] k = "Status" -> "status"
      [] OTHER -> k

\* The value of the last member of an object whose key folds to field f.
RECURSIVE LastMember(_, _, _)
LastMember(members, f, i) ==
    IF i = 0 THEN <<>>
    ELSE IF FoldKey(members[i].k) = f THEN <<members[i].v>>
    ELSE LastMember(members, f, i - 1)

Field(doc, f) == LastMember(doc.members, f, Len(doc.members))

\* A JSON value stored into an interface{}.
RECURSIVE ToInterface(_)
ToInterface(v) ==
    CASE v.t = "null" -> [go |-> "nil"]
      [] v.t = "num" -> [go |-> "float64", f |-> v.n]
      [] v.t = "str" -> [go |-> "string", s |-> v.s]
      [] v.t = "arr" ->
            [go |-> "[]interface{}",
             a |-> [i \in 1..Len(v.elems) |-> ToInterface(v.elems[i])]]
      [] v.t = "obj" ->
            [go |-> "map[string]interface{}",
             m |-> [i \in 1..Len(v.members) |->
                       [k |-> v.members[i].k,
                        v |-> ToInterface(v.members[i].v)]]]

SyntaxError == <<[kind |-> "json.SyntaxError"]>>
ReadError == <<[kind |-> "io.ErrUnexpectedEOF"]>>
TypeError(field) == <<[kind |-> "json.UnmarshalTypeError", field |-> field]>>

(***************************************************************************)
(* A response body is a stream: the document it carries, whether the       *)
(* stream breaks with a read error once the document's bytes are           *)
(* delivered, and whether it has been read to its end.                     *)
(***************************************************************************)
Stream(doc, broken) == [doc |-> doc, broken |-> broken, drained |-> FALSE]

\* json.Decoder reading one value: an object or an array ends at its closing
\* bracket; any other value needs the byte after it.
ReadValue(body) ==
    IF body.drained
    THEN [err |-> IF body.broken THEN ReadError ELSE SyntaxError]
    ELSE IF body.doc.t = "invalid" THEN [err |-> SyntaxError]
    ELSE IF body.broken /\ body.doc.t \notin {"obj", "arr"}
    THEN [err |-> ReadError]
    ELSE [err |-> NoError]

\* One struct field of pointer or slice kind filled from an object member.
DecodeField(doc, f, kind) ==
    LET m == Field(doc, f)
    IN  IF m = <<>> \/ m[1].t = "null" THEN [set |-> FALSE, err |-> NoError]
        ELSE IF m[1].t = kind THEN [set |-> TRUE, v |-> m[1], err |-> NoError]
        ELSE [set |-> FALSE, err |-> TypeError(f)]

DecodeString(doc, f) ==
    LET m == Field(doc, f)
    IN  IF m = <<>> \/ m[1].t = "null" THEN [s |-> "", err |-> NoError]
        ELSE IF m[1].t = "str" THEN [s |-> m[1].s, err |-> NoError]
        ELSE [s |-> "", err |-> TypeError(f)]

FirstError(errs) ==
    IF \E i \in 1..Len(errs) : errs[i] # NoError
    THEN errs[CHOOSE i \in 1..Len(errs) :
                 /\ errs[i] # NoError
                 /\ \A j \in 1..(i - 1) : errs[j] = NoError]
    ELSE NoError

\* decoder.Decode(&apiResponse)
DecodeAPIResponse(body) ==
    LET rd == ReadValue(body)
        doc == body.doc
    IN  IF rd.err # NoError THEN [err |-> rd.err]
        ELSE IF doc.t = "null"
        THEN [err |-> NoError,
              val |-> [Status |-> <<>>, Request |-> <<>>, Data |-> <<>>]]
        ELSE IF doc.t # "obj" THEN [err |-> TypeError("APIResponse")]
        ELSE LET st == DecodeField(doc, "status", "obj")
                 msg == IF st.set THEN DecodeString(st.v, "message")
                        ELSE [s |-> "", err |-> NoError]
                 rq == DecodeField(doc, "request", "obj")
                 da == DecodeField(doc, "data", "arr")
                 err == FirstError(<<st.err, msg.err, rq.err, da.err>>)
             IN  IF err # NoError THEN [err |-> err]
                 ELSE [err |-> NoError,
                       val |-> [Status |-> IF st.set
                                           THEN <<[Message |-> msg.s]>>
                                           ELSE <<>>,
                                Request |-> IF rq.set THEN <<"RequestInfo">>
                                            ELSE <<>>,
                                Data |-> IF da.set
                                         THEN ToInterface(da.v).a
                                         ELSE <<>>]]

\* decoder.Decode(&faultResponse): Status and StatusCode carry no tag, so
\* members named status and statuscode are decoded into them.
DecodeFaultResponse(body) ==
    LET rd == ReadValue(body)
        doc == body.doc
    IN  IF rd.err # NoError THEN [err |-> rd.err]
        ELSE IF doc.t = "null" THEN [err |-> NoError, Fault |-> <<>>]
        ELSE IF doc.t # "obj" THEN [err |-> TypeError("FaultResponse")]
        ELSE LET st == DecodeString(doc, "status")
                 fa == DecodeField(doc, "fault", "obj")
                 fs == IF fa.set THEN DecodeString(fa.v, "faultstring")
                       ELSE [s |-> "", err |-> NoError]
                 err == FirstError(<<st.err, fa.err, fs.err>>)
             IN  IF err # NoError THEN [err |-> err]
                 ELSE [err |-> NoError,
                       Fault |-> IF fa.set THEN <<[FaultString |-> fs.s]>>
                                 ELSE <<>>]

NewFaultResponse(r) ==
    LET d == DecodeFaultResponse(r.Body)
    IN  IF d.err # NoError THEN [fault |-> <<>>, err |-> d.err]
        ELSE [fault |-> <<[Status |-> r.Status, StatusCode |-> r.StatusCode,
                           Fault |-> d.Fault]>>,
              err |-> NoError]

\* (*FaultResponse).Error
FaultError(e) == IF e.Fault # <<>> THEN e.Fault[1].FaultString ELSE e.Status

(***************************************************************************)
(* Client.do.  The transport's behaviour is an input: the response or the  *)
(* error of innerClient.Do, and whether dumping the request fails.         *)
(***************************************************************************)
EmptyHeader == [k \in {} |-> <<>>]

\* http.NewRequest("GET", url, nil)
NewRequest(url) ==
    IF URLParseFails(url) THEN [req |-> <<>>, err |-> ParseError(url)]
    ELSE [req |-> <<[Method |-> "GET", URL |-> url, ctx |-> Background,
                     Header |-> EmptyHeader]>>,
          err |-> NoError]

\* (*http.Request).WithContext: a copy of the request that carries ctx.
RequestWithContext(req, ctx) == [req EXCEPT !.ctx = ctx]

\* httputil.DumpResponse(r, true): reads the body to its end and puts a copy
\* in its place; when reading fails the body stays as the read left it.
DumpResponse(r) ==
    IF r.Body.broken
    THEN [err |-> ReadError, r |-> [r EXCEPT !.Body.drained = TRUE]]
    ELSE [err |-> NoError, r |-> [r EXCEPT !.Body = Stream(r.Body.doc, FALSE)]]

\* The body of "if c.trace": the response as the dumps leave it, and what
\* Tracef writes.  A failed dump of the request leaves reqStr empty; a failed
\* dump of the response writes nothing.
TraceExchange(r, dumpReqFails) ==
    LET reqStr == IF dumpReqFails THEN "" ELSE "request"
    IN  IF r = <<>>
        THEN [r |-> r, logged |-> <<[reqStr |-> reqStr, dump |-> ""]>>]
        ELSE LET d == DumpResponse(r[1])
             IN  [r |-> <<d.r>>,
                  logged |-> IF d.err = NoError
                             THEN <<[reqStr |-> reqStr, dump |-> "response"]>>
                             ELSE <<>>]

do(c, req, t) ==
    LET dropped == RequestWithContext(req, c.ctx)  \* the copy is not kept
        h1   == HeaderSet(req.Header, "User-Agent", <<c.userAgent>>)
        h2   == HeaderSet(h1, "Accept", <<"application/json">>)
        h3   == HeaderSet(h2, "Content-Type", <<"application/json">>)
        req1 == [req EXCEPT !.Header = h3]
        tr   == IF c.trace THEN TraceExchange(t.resp, t.dumpReqFails)
                ELSE [r |-> t.resp, logged |-> <<>>]
    IN  [r |-> tr.r, e |-> t.err, handed |-> req1, logged |-> tr.logged]

(***************************************************************************)
(* Wellness.GetObjectSet and GetIssues.                                    *)
(***************************************************************************)
QueryURL(c, objectSet) ==
    c.Server \o <<"w", "e", "l", "l", "n", "e", "s", "s", "/">>
             \o c.Wellness.Version \o <<Slash>> \o objectSet
             \o <<"?", "d", "o", "m", "a", "i", "n", "=",
                  "u", "r", "n", ":", "n", "i", "m", "b", "l", "e">>

\* A status test that takes redirections for faults.
IsFaultFrom300(code) == code > 299

\* if r.StatusCode > 399
IsFault(code) == code > 399

GetObjectSet(c, objectSet, t) ==
    LET nr == NewRequest(QueryURL(c, objectSet))
    IN  IF nr.err # NoError
        THEN [val |-> <<>>, err |-> nr.err, do |-> <<>>]
        ELSE LET d == do(c, nr.req[1], t)
             IN  IF d.e # NoError
                 THEN [val |-> <<>>, err |-> d.e, do |-> <<d>>]
                 ELSE IF IsFault(d.r[1].StatusCode)
                 THEN LET f == NewFaultResponse(d.r[1])
                      IN  [val |-> <<[type |-> "*FaultResponse",
                                      fault |-> f.fault]>>,
                           err |-> f.err, do |-> <<d>>]
                 ELSE LET a == DecodeAPIResponse(d.r[1].Body)
                      IN  IF a.err # NoError
                          THEN [val |-> <<>>, err |-> a.err, do |-> <<d>>]
                          ELSE [val |-> <<[type |-> "APIResponse",
                                           api |-> a.val]>>,
                                err |-> NoError, do |-> <<d>>]

issues == <<"i", "s", "s", "u", "e", "s">>

GetIssues(c, t) == GetObjectSet(c, issues, t)

(***************************************************************************)
(* The inputs the actions draw from.                                       *)
(***************************************************************************)
Envs ==
    {[INFOSIGHT_URL |-> <<>>, INFOSIGHT_CLIENT_KEY |-> "",
      INFOSIGHT_CLIENT_SECRET |-> ""],
     [INFOSIGHT_URL |-> <<"a", Slash>>, INFOSIGHT_CLIENT_KEY |-> "envkey",
      INFOSIGHT_CLIENT_SECRET |-> "envsecret"]}

BaseURLs == {stem \o Slashes(n) : stem \in {<<>>, <<"a">>}, n \in 0..MaxSlashes}

OptURLs ==
    {stem \o Slashes(n) :
        stem \in {<<>>, <<"a">>, <<Ctl>>}, n \in 0..MaxSlashes}

Options ==
    {WithTrace(TRUE), WithTrace(FALSE), WithUserAgent("ua"),
     WithContext(<<"ctxA">>), WithContext(<<>>), WithLogin("user", "pw")}
    \cup {WithBaseURL(u) : u \in OptURLs}

OptLists == UNION {[1..n -> Options] : n \in 0..MaxOpts}

Creds == UNION {[1..n -> {"x", " "}] : n \in 0..MaxCred}

AuthValues ==
    {BearerTokenSp \o cr : cr \in Creds}
    \cup {<<>>, SubSeq(BearerTokenSp, 1, 11), BearerSp \o <<"x">>,
          <<"b">> \o SubSeq(BearerTokenSp, 2, 12) \o <<"x">>}

AuthHeaders ==
    {EmptyHeader}
    \cup {HeaderSet(EmptyHeader, "Authorization", a) : a \in AuthValues}
    \cup {[k \in {"Authorization"} |-> <<a, <<"x">>>>] : a \in AuthValues}

ShimRequests ==
    {[Method |-> "GET", URL |-> <<"a">>, ctx |-> ctx, Header |-> h] :
        ctx \in {Background, <<"ctxA">>},
        h \in AuthHeaders
              \cup {HeaderSet(a, "Accept", <<"application/json">>) :
                       a \in AuthHeaders}}

Elems == {JNum(1), JObj(<<Member("id", JNum(1))>>)}

DataArrays == {JArr(e) : e \in UNION {[1..n -> Elems] : n \in 0..MaxData}}

StatusObj == JObj(<<Member("message", JStr("ok"))>>)

Docs ==
    {JInvalid, JNull, JArr(<<>>), JObj(<<>>)}
    \cup {JObj(<<Member("data", d)>>) : d \in DataArrays \cup {JNull, JStr("x")}}
    \cup {JObj(<<Member("Data", d)>>) : d \in DataArrays}
    \cup {JObj(<<Member("status", StatusObj), Member("data", d)>>) :
             d \in DataArrays}
    \cup {JObj(<<Member("fault", f)>>) :
             f \in {JObj(<<Member("faultstring", JStr("forbidden"))>>),
                    JObj(<<>>), JNull, JStr("x")}}
    \cup {JObj(<<Member("status", JStr("denied")),
                 Member("fault", JObj(<<Member("faultstring",
                                               JStr("forbidden"))>>))>>)}

StatusLine(code) ==
    CASE code = 200 -> "200 OK"
      [] code = 399 -> "399"
      [] code = 400 -> "400 Bad Request"
      [] code = 403 -> "403 Forbidden"

Responses ==
    {[StatusCode |-> code, Status |-> StatusLine(code),
      Body |-> Stream(doc, broken)] :
        code \in {200, 399, 400, 403}, doc \in Docs, broken \in BOOLEAN}

Transports ==
    {[resp |-> <<r>>, err |-> NoError, dumpReqFails |-> f] :
        r \in Responses, f \in BOOLEAN}
    \cup {[resp |-> <<>>, err |-> <<[kind |-> "net.OpError"]>>,
           dumpReqFails |-> f] : f \in BOOLEAN}

ObjectSets == {<<"v">>, <<Ctl>>}

(***************************************************************************)
(* The state machine: a caller that constructs a client and then calls it. *)
(***************************************************************************)
None == [op |-> "none"]

Init ==
    /\ env \in Envs
    /\ client = <<>>
    /\ pc = "start"
    /\ call = None
    /\ ret = None

NewClientCall ==
    /\ pc = "start"
    /\ \E b \in BaseURLs, opts \in OptLists :
          LET r == NewClient(b, opts)
          IN  /\ client' = r.client
              /\ call' = [op |-> "NewClient", baseURL |-> b, opts |-> opts]
              /\ ret' = [op |-> "NewClient", err |-> r.err,
                         applied |-> r.applied, built |-> r.built]
    /\ pc' = "returned"
    /\ UNCHANGED env

NewClientFromEnvironmentCall ==
    /\ pc = "start"
    /\ \E opts \in OptLists :
          LET r == NewClientFromEnvironment(env, opts)
          IN  /\ client' = r.client
              /\ call' = [op |-> "NewClientFromEnvironment", opts |-> opts]
              /\ ret' = [op |-> "NewClientFromEnvironment", err |-> r.err,
                         applied |-> r.applied, built |-> r.built]
    /\ pc' = "returned"
    /\ UNCHANGED env

RoundTripCall ==
    /\ pc = "idle"
    /\ \E req \in ShimRequests :
          /\ call' = [op |-> "RoundTrip", req |-> req]
          /\ ret' = [op |-> "RoundTrip", forwarded |-> RoundTrip(req)]
    /\ pc' = "returned"
    /\ UNCHANGED <<env, client>>

GetObjectSetCall ==
    /\ pc = "idle"
    /\ \E objectSet \in ObjectSets, t \in Transports :
          LET r == GetObjectSet(client[1], objectSet, t)
          IN  /\ call' = [op |-> "GetObjectSet", objectSet |-> objectSet,
                          t |-> t]
              /\ ret' = [op |-> "GetObjectSet", val |-> r.val, err |-> r.err,
                         do |-> r.do]
    /\ pc' = "returned"
    /\ UNCHANGED <<env, client>>

GetIssuesCall ==
    /\ pc = "idle"
    /\ \E t \in Transports :
          LET r == GetIssues(client[1], t)
          IN  /\ call' = [op |-> "GetObjectSet", objectSet |-> issues,
                          t |-> t]
              /\ ret' = [op |-> "GetObjectSet", val |-> r.val, err |-> r.err,
                         do |-> r.do]
    /\ pc' = "returned"
    /\ UNCHANGED <<env, client>>

\* The caller takes the result and goes on: with the client when it has one,
\* to another construction when it has none.
Continue ==
    /\ pc = "returned"
    /\ pc' = IF client = <<>> THEN "start" ELSE "idle"
    /\ call' = None
    /\ ret' = None
    /\ UNCHANGED <<env, client>>

Next ==
    \/ NewClientCall
    \/ NewClientFromEnvironmentCall
    \/ RoundTripCall
    \/ GetObjectSetCall
    \/ GetIssuesCall
    \/ Continue

Spec == Init /\ [][Next]_vars

(***************************************************************************)
(* The properties checked of the client.                                   *)
(***************************************************************************)
Constructed ==
    pc = "returned" /\ call.op \in {"NewClient", "NewClientFromEnvironment"}

\* The options a constructor call runs, in order.
GivenOpts ==
    IF call.op = "NewClient" THEN call.opts
    ELSE Append(call.opts, WithLogin(env.INFOSIGHT_CLIENT_KEY,
                                     env.INFOSIGHT_CLIENT_SECRET))

GivenBaseURL == IF call.op = "NewClient" THEN call.baseURL ELSE env.INFOSIGHT_URL

OptionFails(o) == o.op = "WithBaseURL" /\ URLParseFails(o.baseURL)

\* GetObjectSet returned after Client.do got a response from the transport.
Answered ==
    /\ pc = "returned"
    /\ call.op = "GetObjectSet"
    /\ ret.do # <<>>
    /\ call.t.err = NoError

Response == call.t.resp[1]

HasKey(doc, k) == \E i \in 1..Len(doc.members) : doc.members[i].k = k

KeysAmong(doc, ks) == \A i \in 1..Len(doc.members) : doc.members[i].k \in ks

\* The value of member k of an object that holds it once.
ValueOf(doc, k) ==
    doc.members[CHOOSE i \in 1..Len(doc.members) : doc.members[i].k = k].v

\* A body that arrives whole and is a JSON fault envelope.
ValidFaultBody(body) ==
    /\ ~body.broken
    /\ body.doc.t = "obj"
    /\ KeysAmong(body.doc, {"fault"})
    /\ HasKey(body.doc, "fault") =>
          /\ ValueOf(body.doc, "fault").t = "obj"
          /\ KeysAmong(ValueOf(body.doc, "fault"), {"faultstring"})
          /\ HasKey(ValueOf(body.doc, "fault"), "faultstring") =>
                ValueOf(ValueOf(body.doc, "fault"), "faultstring").t = "str"

FaultPresent(body) == HasKey(body.doc, "fault")

\* C1: for every response with status >= 400 whose body is a valid JSON
\* fault envelope, GetObjectSet returns a non-nil error that is the decoded
\* FaultResponse, and the error's message is the fault's faultString when a
\* fault is present, otherwise the HTTP status text.
C1_FaultReturnedAsError ==
    (Answered /\ Response.StatusCode >= 400 /\ ValidFaultBody(Response.Body))
    => /\ ret.err # NoError
       /\ "StatusCode" \in DOMAIN ret.err[1]
       /\ ret.err[1].StatusCode = Response.StatusCode
       /\ FaultError(ret.err[1]) =
             IF /\ FaultPresent(Response.Body)
                /\ HasKey(ValueOf(Response.Body.doc, "fault"), "faultstring")
             THEN ValueOf(ValueOf(Response.Body.doc, "fault"), "faultstring").s
             ELSE IF FaultPresent(Response.Body) THEN ""
             ELSE Response.Status

EndsWithOneSlash(s) ==
    HasSuffix(s, <<Slash>>) /\ ~HasSuffix(s, <<Slash, Slash>>)

\* C2: for every base URL argument and every sequence of options for which
\* the constructor succeeds, a WithBaseURL override included, the Server of
\* the returned client ends with exactly one slash.
C2_ServerEndsWithOneSlash ==
    (Constructed /\ client # <<>>) => EndsWithOneSlash(client[1].Server)

ShimReturned == pc = "returned" /\ call.op = "RoundTrip"

SameButAuthorization(a, b) ==
    /\ a.Method = b.Method
    /\ a.URL = b.URL
    /\ a.ctx = b.ctx
    /\ DOMAIN a.Header \ {"Authorization"} = DOMAIN b.Header \ {"Authorization"}
    /\ \A k \in DOMAIN a.Header \ {"Authorization"} : a.Header[k] = b.Header[k]

\* C3: for every request whose Authorization header is "BearerToken <value>",
\* RoundTrip forwards a request whose Authorization header is exactly
\* "Bearer <value>", every other header and field being the original's.
C3_BearerTokenRewritten ==
    \A cr \in Creds :
        (/\ ShimReturned
         /\ "Authorization" \in DOMAIN call.req.Header
         /\ call.req.Header["Authorization"][1] = BearerTokenSp \o cr)
        => /\ "Authorization" \in DOMAIN ret.forwarded.Header
           /\ ret.forwarded.Header["Authorization"] = <<BearerSp \o cr>>
           /\ SameButAuthorization(call.req, ret.forwarded)

C3_Witness ==
    /\ ShimReturned
    /\ DOMAIN call.req.Header = {"Authorization", "Accept"}
    /\ call.req.Header["Authorization"] = <<BearerTokenSp \o <<"x">>>>
    /\ ret.forwarded.Header["Authorization"] = <<BearerSp \o <<"x">>>>
    /\ ret.forwarded.Header["Accept"] = <<<<"application/json">>>>

\* C4: for every request whose Authorization header does not start with
\* "BearerToken " (a request with no Authorization header included),
\* RoundTrip forwards exactly the headers of the original: none added,
\* removed or changed.
C4_PassThrough ==
    (/\ ShimReturned
     /\ ~HasPrefix(HeaderGet(call.req.Header, "Authorization"), BearerTokenSp))
    => /\ DOMAIN ret.forwarded.Header = DOMAIN call.req.Header
       /\ \A k \in DOMAIN call.req.Header :
             ret.forwarded.Header[k] = call.req.Header[k]

\* A body that arrives whole and is a JSON object of the envelope's shape.
ValidEnvelopeBody(body) ==
    /\ ~body.broken
    /\ body.doc.t = "obj"
    /\ KeysAmong(body.doc, {"status", "data"})
    /\ HasKey(body.doc, "data") => ValueOf(body.doc, "data").t \in {"arr", "null"}
    /\ HasKey(body.doc, "status") =>
          /\ ValueOf(body.doc, "status").t = "obj"
          /\ KeysAmong(ValueOf(body.doc, "status"), {"message"})
          /\ HasKey(ValueOf(body.doc, "status"), "message") =>
                ValueOf(ValueOf(body.doc, "status"), "message").t = "str"

\* The elements of the body's data array; none when data is omitted or null.
BodyData(body) ==
    IF HasKey(body.doc, "data") /\ ValueOf(body.doc, "data").t = "arr"
    THEN ValueOf(body.doc, "data").elems
    ELSE <<>>

\* The JSON text of a decoded element (json.Marshal of it).
RECURSIVE Marshal(_)
Marshal(g) ==
    CASE g.go = "nil" -> JNull
      [] g.go = "float64" -> JNum(g.f)
      [] g.go = "string" -> JStr(g.s)
      [] g.go = "[]interface{}" ->
            JArr([i \in 1..Len(g.a) |-> Marshal(g.a[i])])
      [] g.go = "map[string]interface{}" ->
            JObj([i \in 1..Len(g.m) |-> Member(g.m[i].k, Marshal(g.m[i].v))])

\* C5: for every response with status in [200,399] whose body is valid JSON
\* of the envelope's shape, GetObjectSet returns an APIResponse whose Data is
\* the body's data array (empty when the body omits it) and a nil error.
C5_EnvelopeReturned ==
    (/\ Answered
     /\ Response.StatusCode \in 200..399
     /\ ValidEnvelopeBody(Response.Body))
    => /\ ret.err = NoError
       /\ ret.val # <<>>
       /\ ret.val[1].type = "APIResponse"
       /\ Len(ret.val[1].api.Data) = Len(BodyData(Response.Body))
       /\ \A i \in 1..Len(BodyData(Response.Body)) :
             Marshal(ret.val[1].api.Data[i]) = BodyData(Response.Body)[i]

C5_Witness ==
    /\ Answered
    /\ Response.StatusCode = 399
    /\ Response.Body.doc =
          JObj(<<Member("data", JArr(<<JObj(<<Member("id", JNum(1))>>)>>))>>)
    /\ ~Response.Body.broken
    /\ ret.err = NoError
    /\ Len(ret.val[1].api.Data) = 1

\* C6: every request that Client.do hands to the authenticated transport is
\* associated with the client's configured context (the one WithContext
\* gave, or the background default), so that cancelling that context
\* cancels the exchange.
C6_RequestCarriesClientContext ==
    (pc = "returned" /\ call.op = "GetObjectSet" /\ ret.do # <<>>)
    => Root(ret.do[1].handed.ctx) = Root(client[1].ctx)

NoBaseURLOverride ==
    \A i \in 1..Len(GivenOpts) : GivenOpts[i].op # "WithBaseURL"

\* C7: when the constructor is given an empty base URL and no option
\* overrides the base URL, the client's Server is the default
\* "https://infosight.hpe.com/apis/", which ends with exactly one slash.
C7_EmptyBaseURLDefaults ==
    (Constructed /\ GivenBaseURL = <<>> /\ NoBaseURLOverride)
    => /\ client # <<>>
       /\ client[1].Server = defaultServer
       /\ EndsWithOneSlash(client[1].Server)

C7_Witness ==
    /\ Constructed
    /\ call.op = "NewClient"
    /\ call.baseURL = <<>>
    /\ call.opts = <<WithTrace(TRUE), WithLogin("user", "pw")>>
    /\ client # <<>>
    /\ client[1].Server = defaultServer

FirstFailing ==
    CHOOSE i \in 1..Len(GivenOpts) :
        OptionFails(GivenOpts[i]) /\ \A j \in 1..(i - 1) : ~OptionFails(GivenOpts[j])

\* C8: the constructor applies the options in the order given and the first
\* option that returns an error aborts it: it returns a nil client and that
\* option's error, no later option is applied, and neither the OAuth
\* transport nor the Wellness accessor is built.
C8_FirstFailingOptionAborts ==
    Constructed =>
        IF \E i \in 1..Len(GivenOpts) : OptionFails(GivenOpts[i])
        THEN /\ client = <<>>
             /\ ret.err = ParseError(GivenOpts[FirstFailing].baseURL)
             /\ ret.applied = SubSeq(GivenOpts, 1, FirstFailing)
             /\ ~ret.built
        ELSE /\ ret.err = NoError
             /\ ret.applied = GivenOpts
             /\ ret.built
             /\ client # <<>>

C8_Witness ==
    /\ Constructed
    /\ Len(call.opts) = 2
    /\ OptionFails(call.opts[1])
    /\ call.opts[2] = WithBaseURL(<<Ctl, Slash>>)
    /\ call.opts[1] # call.opts[2]
    /\ client = <<>>
    /\ ret.err = ParseError(call.opts[1].baseURL)
    /\ Len(ret.applied) = 1

\* C9: the trace flag does not influence what Client.do returns: for the same
\* request and the same behaviour of the transport, do returns the same
\* response and the same error with trace on as with trace off, also when a
\* dump fails or the transport returns no response.
C9_TraceDoesNotChangeResult ==
    (pc = "returned" /\ call.op = "GetObjectSet" /\ ret.do # <<>>)
    => LET req == NewRequest(QueryURL(client[1], call.objectSet)).req[1]
           off == do([client[1] EXCEPT !.trace = FALSE], req, call.t)
       IN  ret.do[1].r = off.r /\ ret.do[1].e = off.e

\* C10: NewClientFromEnvironment appends the environment's credentials as the
\* last option, so for every option list of the caller (one with WithLogin
\* included) the client's OAuth client ID and secret are the values of
\* INFOSIGHT_CLIENT_KEY and INFOSIGHT_CLIENT_SECRET.
C10_EnvironmentCredentialsWin ==
    (Constructed /\ call.op = "NewClientFromEnvironment" /\ client # <<>>)
    => /\ client[1].oauthConfig.ClientID = env.INFOSIGHT_CLIENT_KEY
       /\ client[1].oauthConfig.ClientSecret = env.INFOSIGHT_CLIENT_SECRET

C10_Witness ==
    /\ Constructed
    /\ call.op = "NewClientFromEnvironment"
    /\ \E i \in 1..Len(call.opts) : call.opts[i] = WithLogin("user", "pw")
    /\ env.INFOSIGHT_CLIENT_KEY = "envkey"
    /\ client # <<>>
    /\ client[1].oauthConfig.ClientID = "envkey"
    /\ client[1].oauthConfig.ClientSecret = "envsecret"

====
